---- MODULE Spec2Model ----
(***************************************************************************)
(* Timeflake (src/src/lib.rs): a 128-bit identifier made of a 48-bit       *)
(* millisecond timestamp (high bits) and an 80-bit random part (low bits), *)
(* with its constructors, accessors, encoders and ordering.                *)
(*                                                                         *)
(* Numbers.  The values of the program do not fit a machine integer of the *)
(* model checker, so every unsigned integer of the program (u8 excepted)   *)
(* is modelled by its big-endian byte string without leading zero bytes:   *)
(* zero is << >>, 256 is <<1, 0>>.  This is num_bigint's BigUint, and a    *)
(* u64 or u128 is the same thing with at most 8 or 16 bytes.  All the      *)
(* arithmetic the program does (shift, or, and, compare, radix conversion) *)
(* is computed on these byte strings.                                      *)
(*                                                                         *)
(* Text.  A string is a sequence of one-character strings (the program     *)
(* only ever inspects ASCII).                                              *)
(***************************************************************************)
EXTENDS Integers, Sequences, FiniteSets, TLC

VARIABLES pc, call, built, out, back, other, order

vars == <<pc, call, built, out, back, other, order>>

----------------------------------------------------------------------------
(* Unsigned integers as big-endian byte strings *)

Zeros(n) == [i \in 1..n |-> 0]

\* BigUint::from_bytes_be: the value of a big-endian byte string
from_bytes_be(bs) ==
    LET nz == {i \in 1..Len(bs) : bs[i] # 0} IN
    IF nz = {} THEN << >>
    ELSE SubSeq(bs, CHOOSE i \in nz : \A j \in nz : i <= j, Len(bs))

\* BigUint::to_bytes_be: the shortest byte string, one zero byte for zero
to_bytes_be(n) == IF n = << >> THEN <<0>> ELSE n

\* BigUint::from(u8)
from_u8(b) == IF b = 0 THEN << >> ELSE <<b>>

\* left-pads a byte string with zero bytes to w bytes (w >= Len(bs))
PadLeft(bs, w) == Zeros(w - Len(bs)) \o bs

\* Ordering of two unsigned integers: -1, 0 or 1
Cmp(a, b) ==
    IF Len(a) # Len(b) THEN (IF Len(a) < Len(b) THEN -1 ELSE 1)
    ELSE LET d == {i \in 1..Len(a) : a[i] # b[i]} IN
         IF d = {} THEN 0
         ELSE LET i == CHOOSE k \in d : \A j \in d : k <= j IN
              IF a[i] < b[i] THEN -1 ELSE 1

Gt(a, b) == Cmp(a, b) = 1

\* bit i of byte x
Bit(x, i) == (x \div (2 ^ i)) % 2

ByteAnd(x, y) ==
    Bit(x, 0) * Bit(y, 0) + 2 * Bit(x, 1) * Bit(y, 1)
    + 4 * Bit(x, 2) * Bit(y, 2) + 8 * Bit(x, 3) * Bit(y, 3)
    + 16 * Bit(x, 4) * Bit(y, 4) + 32 * Bit(x, 5) * Bit(y, 5)
    + 64 * Bit(x, 6) * Bit(y, 6) + 128 * Bit(x, 7) * Bit(y, 7)

ByteOr(x, y) == x + y - ByteAnd(x, y)

\* n << bits, for a whole number of bytes
Shl(n, bits) == IF n = << >> THEN << >> ELSE n \o Zeros(bits \div 8)

\* n >> bits, for a whole number of bytes
Shr(n, bits) ==
    IF Len(n) <= bits \div 8 THEN << >>
    ELSE SubSeq(n, 1, Len(n) - bits \div 8)

\* a | b
BitOr(a, b) ==
    LET w == IF Len(a) > Len(b) THEN Len(a) ELSE Len(b)
        x == PadLeft(a, w)
        y == PadLeft(b, w)
    IN  from_bytes_be([i \in 1..w |-> ByteOr(x[i], y[i])])

\* a & b
BitAnd(a, b) ==
    LET w == IF Len(a) > Len(b) THEN Len(a) ELSE Len(b)
        x == PadLeft(a, w)
        y == PadLeft(b, w)
    IN  from_bytes_be([i \in 1..w |-> ByteAnd(x[i], y[i])])

\* n * m + c, for m and c below 2^16: a loop from the last byte to the first
MulAdd(n, m, c) ==
    LET loop[i \in 0..Len(n), carry \in Nat, acc \in Seq(Nat)] ==
            IF i = 0
            THEN <<carry \div 65536, (carry \div 256) % 256, carry % 256>>
                 \o acc
            ELSE LET v == n[i] * m + carry IN
                 loop[i - 1, v \div 256, <<v % 256>> \o acc]
    IN  from_bytes_be(loop[Len(n), c, << >>])

\* n divided by a small d, quotient and remainder: long division from the
\* first byte to the last
DivMod(n, d) ==
    LET loop[i \in 1..(Len(n) + 1), r \in Nat, q \in Seq(Nat)] ==
            IF i > Len(n) THEN [quot |-> from_bytes_be(q), rem |-> r]
            ELSE LET v == r * 256 + n[i] IN
                 loop[i + 1, v % d, Append(q, v \div d)]
    IN  loop[1, 0, << >>]

\* the position of character c in alphabet, from 0; -1 when it is not there
IndexOf(alphabet, c) ==
    IF \E i \in 1..Len(alphabet) : alphabet[i] = c
    THEN (CHOOSE i \in 1..Len(alphabet) : alphabet[i] = c) - 1
    ELSE -1

DIGITS == <<"0", "1", "2", "3", "4", "5", "6", "7", "8", "9">>

\* BigUint::parse_bytes(s, radix), for a string of digits of a radix up to
\* ten; like the library it converts several digits at a time (here three)
parse_bytes(s, radix) ==
    LET t == [i \in 1..((3 - (Len(s) % 3)) % 3) |-> "0"] \o s
        d(i) == IndexOf(DIGITS, t[i])
        loop[g \in 1..(Len(t) \div 3 + 1), acc \in Seq(Nat)] ==
            IF g > Len(t) \div 3 THEN acc
            ELSE loop[g + 1,
                      MulAdd(acc, radix * radix * radix,
                             (d(3 * g - 2) * radix + d(3 * g - 1)) * radix
                             + d(3 * g))]
    IN  loop[1, << >>]

----------------------------------------------------------------------------
(* Constants of the crate *)

BASE62 ==
    <<"0", "1", "2", "3", "4", "5", "6", "7", "8", "9", "A", "B", "C", "D",
      "E", "F", "G", "H", "I", "J", "K", "L", "M", "N", "O", "P", "Q", "R",
      "S", "T", "U", "V", "W", "X", "Y", "Z", "a", "b", "c", "d", "e", "f",
      "g", "h", "i", "j", "k", "l", "m", "n", "o", "p", "q", "r", "s", "t",
      "u", "v", "w", "x", "y", "z">>

HEX ==
    <<"0", "1", "2", "3", "4", "5", "6", "7", "8", "9", "a", "b", "c", "d",
      "e", "f">>

\* pub const MAX_TIMESTAMP: u64 = 281474976710655
MAX_TIMESTAMP ==
    parse_bytes(<<"2", "8", "1", "4", "7", "4", "9", "7", "6", "7", "1", "0",
                  "6", "5", "5">>, 10)

MAX_RANDOM ==
    <<"1", "2", "0", "8", "9", "2", "5", "8", "1", "9", "6", "1", "4", "6",
      "2", "9", "1", "7", "4", "7", "0", "6", "1", "7", "5">>

MAX_TIMEFLAKE ==
    <<"3", "4", "0", "2", "8", "2", "3", "6", "6", "9", "2", "0", "9", "3",
      "8", "4", "6", "3", "4", "6", "3", "3", "7", "4", "6", "0", "7", "4",
      "3", "1", "7", "6", "8", "2", "1", "1", "4", "5", "5">>

max_random_biguint == parse_bytes(MAX_RANDOM, 10)

max_timeflake_biguint == parse_bytes(MAX_TIMEFLAKE, 10)

----------------------------------------------------------------------------
(* Results and errors (src/src/error.rs) *)

Ok(v) == [ok |-> TRUE, val |-> v]

Err(e) == [ok |-> FALSE, err |-> e]

InvalidFlake == [kind |-> "InvalidFlake"]

ParseError(input, reason) ==
    [kind |-> "ParseError", input |-> input, reason |-> reason]

InvalidTimestamp(ts) == [kind |-> "InvalidTimestamp", timestamp |-> ts]

InvalidRandom == [kind |-> "InvalidRandom"]

\* ConversionError("BigUint is too large to fit in 16 bytes (got {} bytes)")
ConversionError(len) == [kind |-> "ConversionError", got_bytes |-> len]

\* what a failed unwrap() leaves instead of a value
PANIC == <<-1>>

----------------------------------------------------------------------------
(* The libraries the crate calls: base62, hex, char *)

UPPER ==
    <<"A", "B", "C", "D", "E", "F", "G", "H", "I", "J", "K", "L", "M", "N",
      "O", "P", "Q", "R", "S", "T", "U", "V", "W", "X", "Y", "Z">>

LOWER ==
    <<"a", "b", "c", "d", "e", "f", "g", "h", "i", "j", "k", "l", "m", "n",
      "o", "p", "q", "r", "s", "t", "u", "v", "w", "x", "y", "z">>

\* char::is_ascii_alphanumeric
is_ascii_alphanumeric(c) ==
    \/ IndexOf(DIGITS, c) # -1
    \/ IndexOf(UPPER, c) # -1
    \/ IndexOf(LOWER, c) # -1

\* the digit a character stands for in base62's standard alphabet
\* (0-9, A-Z, a-z), -1 for any other character
Base62Digit(c) ==
    IF IndexOf(DIGITS, c) # -1 THEN IndexOf(DIGITS, c)
    ELSE IF IndexOf(UPPER, c) # -1 THEN 10 + IndexOf(UPPER, c)
    ELSE IF IndexOf(LOWER, c) # -1 THEN 36 + IndexOf(LOWER, c)
    ELSE -1

\* s without its leading "0" characters
ChopZeros(s) ==
    LET nz == {i \in 1..Len(s) : s[i] # "0"} IN
    IF nz = {} THEN << >>
    ELSE SubSeq(s, CHOOSE i \in nz : \A j \in nz : i <= j, Len(s))

\* the base-62 value of a string of base-62 digits
Base62Value(s) ==
    LET loop[k \in 1..(Len(s) + 1), acc \in Seq(Nat)] ==
            IF k > Len(s) THEN acc
            ELSE loop[k + 1, MulAdd(acc, 62, Base62Digit(s[k]))]
    IN  loop[1, << >>]

\* base62::decode: Ok(u128), or Err for an empty string, a character outside
\* the alphabet, or a value that does not fit a u128
base62_decode(s) ==
    IF s = << >> THEN Err("EmptyInput")
    ELSE LET t == ChopZeros(s) IN
         IF Len(t) > 22 THEN Err("ArithmeticOverflow")
         ELSE IF \E i \in 1..Len(t) : Base62Digit(t[i]) = -1
              THEN Err("InvalidBase62Byte")
         ELSE LET v == Base62Value(t) IN
              IF Len(v) > 16 THEN Err("ArithmeticOverflow") ELSE Ok(v)

\* the base-62 digits of n as characters, most significant first
Base62Digits(n) ==
    LET loop[m \in Seq(Nat), acc \in Seq(STRING)] ==
            IF m = << >> THEN acc
            ELSE LET qr == DivMod(m, 62) IN
                 loop[qr.quot, <<BASE62[qr.rem + 1]>> \o acc]
    IN  loop[n, << >>]

\* base62::encode(u128): the shortest base-62 numeral, "0" for zero
base62_encode(n) == IF n = << >> THEN <<"0">> ELSE Base62Digits(n)

\* hex::encode: two lowercase digits per byte
hex_encode(bytes) ==
    [i \in 1..(2 * Len(bytes)) |->
        IF i % 2 = 1 THEN HEX[(bytes[(i + 1) \div 2] \div 16) + 1]
        ELSE HEX[(bytes[i \div 2] % 16) + 1]]

\* the value of a hex digit of either case, -1 for any other character
HexVal(c) ==
    IF IndexOf(HEX, c) # -1 THEN IndexOf(HEX, c)
    ELSE IF IndexOf(UPPER, c) \in 0..5 THEN 10 + IndexOf(UPPER, c)
    ELSE -1

\* hex::decode: Err for an odd length or a character that is no hex digit
hex_decode(s) ==
    IF Len(s) % 2 = 1 THEN Err("OddLength")
    ELSE IF \E i \in 1..Len(s) : HexVal(s[i]) = -1
         THEN Err("InvalidHexCharacter")
    ELSE Ok([i \in 1..(Len(s) \div 2) |->
                16 * HexVal(s[2 * i - 1]) + HexVal(s[2 * i])])

\* u128::to_be_bytes
to_be_bytes(n) == PadLeft(n, 16)

\* u128::from_be_bytes
from_be_bytes(bytes) == from_bytes_be(bytes)

\* ToPrimitive::to_u64: None when the value needs more than 8 bytes
to_u64(n) == IF Len(n) <= 8 THEN [some |-> TRUE, val |-> n]
             ELSE [some |-> FALSE]

\* Option::unwrap
unwrap(o) == IF o.some THEN o.val ELSE PANIC

\* Uuid: the 16 bytes, wrapped (Uuid::from_bytes, Uuid::into_bytes)
Uuid(bytes) == [uuid |-> bytes]

into_bytes(uuid) == uuid.uuid

\* what a call that panicked leaves instead of a value (Result::unwrap on Err)
Panicked == [panicked |-> TRUE]

\* u128 as u64: the low 64 bits
as_u64(n) ==
    IF Len(n) <= 8 THEN n ELSE from_bytes_be(SubSeq(n, Len(n) - 7, Len(n)))

----------------------------------------------------------------------------
(* Timeflake (src/src/lib.rs) *)

\* struct Timeflake { bytes: [u8; 16], int_value: BigUint }
Timeflake(bytes, int_value) == [bytes |-> bytes, int_value |-> int_value]

bytes_to_biguint(bytes) ==
    LET loop[k \in 1..(Len(bytes) + 1), result \in Seq(Nat)] ==
            IF k > Len(bytes) THEN result
            ELSE loop[k + 1, BitOr(Shl(result, 8), from_u8(bytes[k]))]
    IN  loop[1, << >>]

\* biguint_to_bytes refusing a value of exactly 16 bytes (>= for >)
biguint_to_bytes_ge(n) ==
    LET bytes == to_bytes_be(n) IN
    IF Len(bytes) >= 16 THEN Err(ConversionError(Len(bytes)))
    ELSE Ok(Zeros(16 - Len(bytes)) \o bytes)

\* biguint_to_bytes copying the bytes to the front of the array: the value
\* is padded on the right
biguint_to_bytes_front(n) ==
    LET bytes == to_bytes_be(n) IN
    IF Len(bytes) > 16 THEN Err(ConversionError(Len(bytes)))
    ELSE Ok(bytes \o Zeros(16 - Len(bytes)))

biguint_to_bytes(n) ==
    LET bytes == to_bytes_be(n) IN
    IF Len(bytes) > 16 THEN Err(ConversionError(Len(bytes)))
    ELSE Ok(Zeros(16 - Len(bytes)) \o bytes)

\* from_bytes refusing the largest value (>= for >)
from_bytes_ge(bytes) ==
    LET int_value == bytes_to_biguint(bytes) IN
    IF Cmp(int_value, max_timeflake_biguint) >= 0 THEN Err(InvalidFlake)
    ELSE Ok(Timeflake(bytes, int_value))

from_bytes(bytes) ==
    LET int_value == bytes_to_biguint(bytes) IN
    IF Gt(int_value, max_timeflake_biguint) THEN Err(InvalidFlake)
    ELSE Ok(Timeflake(bytes, int_value))

\* from_components rejecting the largest timestamp (>= for >)
from_components_ge(timestamp, random) ==
    IF Cmp(timestamp, MAX_TIMESTAMP) >= 0
    THEN Err(InvalidTimestamp(timestamp))
    ELSE IF Gt(random, max_random_biguint) THEN Err(InvalidRandom)
    ELSE LET int_value == BitOr(Shl(timestamp, 80), random)
             bytes == biguint_to_bytes(int_value)
         IN  IF ~bytes.ok THEN bytes
             ELSE Ok(Timeflake(bytes.val, int_value))

\* from_components shifting the timestamp by 72 bits, into the random part
from_components_shl72(timestamp, random) ==
    IF Gt(timestamp, MAX_TIMESTAMP) THEN Err(InvalidTimestamp(timestamp))
    ELSE IF Gt(random, max_random_biguint) THEN Err(InvalidRandom)
    ELSE LET int_value == BitOr(Shl(timestamp, 72), random)
             bytes == biguint_to_bytes(int_value)
         IN  IF ~bytes.ok THEN bytes
             ELSE Ok(Timeflake(bytes.val, int_value))

from_components(timestamp, random) ==
    IF Gt(timestamp, MAX_TIMESTAMP) THEN Err(InvalidTimestamp(timestamp))
    ELSE IF Gt(random, max_random_biguint) THEN Err(InvalidRandom)
    ELSE LET int_value == BitOr(Shl(timestamp, 80), random)
             bytes == biguint_to_bytes(int_value)
         IN  IF ~bytes.ok THEN bytes
             ELSE Ok(Timeflake(bytes.val, int_value))

\* utc_now is the Result of UtcTime::now(), its value the u128 of as_millis();
\* random_bytes is what rng.fill leaves in the array
new_random(utc_now, random_bytes) ==
    IF ~utc_now.ok THEN Panicked
    ELSE LET now == as_u64(utc_now.val)
             random == from_bytes_be(random_bytes)
             made == from_components(now, random)
         IN  IF ~made.ok THEN Panicked ELSE made.val

from_base62(s) ==
    LET decoded == base62_decode(s) IN
    IF ~decoded.ok THEN Err(ParseError(s, "Invalid base62 encoding"))
    ELSE LET int_value == from_bytes_be(to_be_bytes(decoded.val)) IN
         IF Gt(int_value, max_timeflake_biguint) THEN Err(InvalidFlake)
         ELSE LET bytes == biguint_to_bytes(int_value) IN
              IF ~bytes.ok THEN bytes
              ELSE Ok(Timeflake(bytes.val, int_value))

from_bigint(value) ==
    LET bytes == biguint_to_bytes(value) IN
    IF ~bytes.ok THEN bytes ELSE from_bytes(bytes.val)

from_uuid(uuid) == from_bytes(into_bytes(uuid))

to_uuid(self) == Uuid(self.bytes)

\* to_base62 without the padding
to_base62_unpadded(self) == base62_encode(from_be_bytes(self.bytes))

to_base62(self) ==
    LET encoded == base62_encode(from_be_bytes(self.bytes))
        padding == 22
    IN  IF Len(encoded) < padding
        THEN [i \in 1..(padding - Len(encoded)) |-> "0"] \o encoded
        ELSE encoded

timestamp(self) == unwrap(to_u64(Shr(self.int_value, 80)))

random(self) == BitAnd(self.int_value, max_random_biguint)

to_hex(self) == hex_encode(self.bytes)

to_bytes(self) == self.bytes

to_bigint(self) == self.int_value

\* from_str taking only strings shorter than 22 as Base62 (< for <=)
from_str_lt22(s) ==
    IF Len(s) = 32 /\ \A i \in 1..Len(s) : IndexOf(HEX, s[i]) # -1
    THEN LET bytes == hex_decode(s) IN
         IF ~bytes.ok THEN Err(ParseError(s, "Invalid hex"))
         ELSE IF Len(bytes.val) # 16
              THEN Err(ParseError(s, "Expected 16 bytes"))
         ELSE from_bytes(bytes.val)
    ELSE IF Len(s) < 22 /\ \A i \in 1..Len(s) : is_ascii_alphanumeric(s[i])
         THEN from_base62(s)
    ELSE Err(ParseError(s,
        "String must be either a 32-character hex string or a base62 string"))

\* from_str trying Base62 on any alphanumeric string before hex
from_str_base62_first(s) ==
    IF \A i \in 1..Len(s) : is_ascii_alphanumeric(s[i])
    THEN from_base62(s)
    ELSE IF Len(s) = 32 /\ \A i \in 1..Len(s) : IndexOf(HEX, s[i]) # -1
    THEN LET bytes == hex_decode(s) IN
         IF ~bytes.ok THEN Err(ParseError(s, "Invalid hex"))
         ELSE IF Len(bytes.val) # 16
              THEN Err(ParseError(s, "Expected 16 bytes"))
         ELSE from_bytes(bytes.val)
    ELSE Err(ParseError(s,
        "String must be either a 32-character hex string or a base62 string"))

\* from_str taking only strings of exactly 22 characters as Base62 (= for <=)
from_str_eq22(s) ==
    IF Len(s) = 32 /\ \A i \in 1..Len(s) : IndexOf(HEX, s[i]) # -1
    THEN LET bytes == hex_decode(s) IN
         IF ~bytes.ok THEN Err(ParseError(s, "Invalid hex"))
         ELSE IF Len(bytes.val) # 16
              THEN Err(ParseError(s, "Expected 16 bytes"))
         ELSE from_bytes(bytes.val)
    ELSE IF Len(s) = 22 /\ \A i \in 1..Len(s) : is_ascii_alphanumeric(s[i])
         THEN from_base62(s)
    ELSE Err(ParseError(s,
        "String must be either a 32-character hex string or a base62 string"))

from_str(s) ==
    IF Len(s) = 32 /\ \A i \in 1..Len(s) : IndexOf(HEX, s[i]) # -1
    THEN LET bytes == hex_decode(s) IN
         IF ~bytes.ok THEN Err(ParseError(s, "Invalid hex"))
         ELSE IF Len(bytes.val) # 16
              THEN Err(ParseError(s, "Expected 16 bytes"))
         ELSE from_bytes(bytes.val)
    ELSE IF Len(s) <= 22 /\ \A i \in 1..Len(s) : is_ascii_alphanumeric(s[i])
         THEN from_base62(s)
    ELSE Err(ParseError(s,
        "String must be either a 32-character hex string or a base62 string"))

\* eq comparing the timestamps only
eq_timestamps(self, that) ==
    Shr(self.int_value, 80) = Shr(that.int_value, 80)

\* PartialEq::eq
eq(self, that) == self.int_value = that.int_value

\* cmp with its operands exchanged
cmp_exchanged(self, that) ==
    LET c == Cmp(that.int_value, self.int_value) IN
    IF c = -1 THEN "Less" ELSE IF c = 0 THEN "Equal" ELSE "Greater"

\* Ord::cmp
cmp(self, that) ==
    LET c == Cmp(self.int_value, that.int_value) IN
    IF c = -1 THEN "Less" ELSE IF c = 0 THEN "Equal" ELSE "Greater"

\* PartialOrd::partial_cmp and the operators <, > derived from it
partial_cmp(self, that) == [some |-> TRUE, val |-> cmp(self, that)]

lt(self, that) == partial_cmp(self, that) = [some |-> TRUE, val |-> "Less"]

gt(self, that) ==
    partial_cmp(self, that) = [some |-> TRUE, val |-> "Greater"]

\* a Hasher is the bytes written to it so far
new_hasher == << >>

\* Hash::hash: the array's bytes are written to the hasher, after their
\* number as the slice's length prefix
hash(self, state) == state \o <<Len(self.bytes)>> \o self.bytes

\* Hasher::finish: a function of the bytes written, here a polynomial one
finish(state) ==
    LET loop[i \in 0..Len(state), h \in 0..65535] ==
            IF i = Len(state) THEN h
            ELSE loop[i + 1, (h * 31 + state[i + 1]) % 65536]
    IN  loop[0, 7]

----------------------------------------------------------------------------
(* The inputs the calls are made with *)

\* the longest BigUint a call is given, in bytes
MaxBigLen == 17

\* the longest string a call is given, in characters
MaxStrLen == 33

\* n items: first h, last l, f between
Pattern(n, h, f, l) ==
    [i \in 1..n |-> IF i = 1 THEN h ELSE IF i = n THEN l ELSE f]

\* 1579091935216 and 724773312193627487660233, the components of
\* 016fa936bff0997a0a3c428548fee8c9
ScenarioTimestamp == <<1, 111, 169, 54, 191, 240>>

ScenarioRandom == <<153, 122, 10, 60, 66, 133, 72, 254, 232, 201>>

\* u64 timestamps: 0, 1, 123, the scenario's, 2^48 - 2, 2^48 - 1, 2^48,
\* 2^64 - 1
TsInputs ==
    { << >>, <<1>>, <<123>>, ScenarioTimestamp,
      Pattern(6, 255, 255, 254), Pattern(6, 255, 255, 255),
      Pattern(7, 1, 0, 0), Pattern(8, 255, 255, 255) }

\* BigUints of every length up to MaxBigLen bytes, among them 0, 2^80 - 1,
\* 2^80, 2^128 - 1 and 2^128
RandInputs ==
    { from_bytes_be(Pattern(n, h, f, f)) :
        n \in 0..MaxBigLen, h \in {1, 255}, f \in {0, 255} }
    \cup { <<1, 200>>, ScenarioRandom, Pattern(10, 255, 255, 254) }

BigInputs ==
    { from_bytes_be(Pattern(n, h, f, l)) :
        n \in 0..MaxBigLen, h \in {1, 255}, f \in {0, 255},
        l \in {0, 254, 255} }
    \cup { ScenarioTimestamp \o ScenarioRandom }

\* [u8; 16]
ByteArrays ==
    { Pattern(16, h, f, l) : h \in {0, 1, 255}, f \in {0, 255},
                             l \in {0, 1, 255} }
    \cup { ScenarioTimestamp \o ScenarioRandom }

\* 02i1KoFfY3auBS745gImbZ
ScenarioBase62 ==
    <<"0", "2", "i", "1", "K", "o", "F", "f", "Y", "3", "a", "u", "B", "S",
      "7", "4", "5", "g", "I", "m", "b", "Z">>

\* 7n42DGM5Tflk9n8mt7Fhc7, which is 2^128 - 1, and the numeral after it
MaxBase62 ==
    <<"7", "n", "4", "2", "D", "G", "M", "5", "T", "f", "l", "k", "9", "n",
      "8", "m", "t", "7", "F", "h", "c", "7">>

OverBase62 == [MaxBase62 EXCEPT ![22] = "8"]

\* strings of every length up to MaxStrLen: digits, letters of both cases,
\* a character of neither alphabet
StrInputs ==
    { Pattern(n, h, f, l) :
        n \in 0..MaxStrLen, h \in {"0", "7", "8", "F", "-"},
        f \in {"0", "f"}, l \in {"0", "z"} }
    \cup { ScenarioBase62, MaxBase62, OverBase62,
           hex_encode(ScenarioTimestamp \o ScenarioRandom),
           [i \in 1..32 |-> IF i = 31 THEN "1" ELSE "0"],
           Pattern(32, "f", "f", "f"), Pattern(32, "F", "F", "F"),
           Pattern(22, "z", "z", "z"), Pattern(22, "0", "0", "-") }

\* Uuids: nil, 00000000-0000-4000-8000-000000000000, the scenario's
\* 016fa936-bff0-997a-0a3c-428548fee8c9, and the largest
UuidInputs ==
    { Uuid(b) : b \in { Pattern(16, 0, 0, 0),
                        [i \in 1..16 |-> IF i = 7 THEN 64
                                         ELSE IF i = 9 THEN 128 ELSE 0],
                        ScenarioTimestamp \o ScenarioRandom,
                        Pattern(16, 255, 255, 255) } }

\* what the clock gives: a failure, or the milliseconds since the epoch (a
\* u128): 0, the scenario's, 2^48 - 1, 2^48, 2^64 - 1, 2^64, 2^64 + 123
ClockInputs ==
    { Err([kind |-> "TimeError"]) }
    \cup { Ok(t) : t \in { << >>, ScenarioTimestamp, Pattern(6, 255, 255, 255),
                            Pattern(7, 1, 0, 0), Pattern(8, 255, 255, 255),
                            Pattern(9, 1, 0, 0), Pattern(9, 1, 0, 123) } }

\* what the entropy source fills the 10 bytes with
EntropyInputs ==
    { Pattern(10, 0, 0, 0), Pattern(10, 0, 0, 1), ScenarioRandom,
      Pattern(10, 255, 255, 255) }

\* second identifiers, of every constructor: 0, the scenario's value and
\* 2^128 - 1 come from several of them
OtherFlakes ==
    { [via |-> "from_components", res |-> from_components(t, r)] :
        t \in { << >>, <<123>>, ScenarioTimestamp },
        r \in { << >>, <<1>>, ScenarioRandom } }
    \cup { [via |-> "from_bytes", res |-> from_bytes(b)] :
        b \in { Pattern(16, 0, 0, 0), ScenarioTimestamp \o ScenarioRandom,
                Pattern(16, 255, 255, 255) } }
    \cup { [via |-> "from_bigint", res |-> from_bigint(v)] :
        v \in { << >>, <<1>>, ScenarioTimestamp \o ScenarioRandom } }
    \cup { [via |-> "from_base62", res |-> from_base62(s)] :
        s \in { <<"0">>, ScenarioBase62, MaxBase62 } }
    \cup { [via |-> "from_str", res |-> from_str(s)] :
        s \in { <<"1">>, Pattern(32, "f", "f", "f") } }
    \cup { [via |-> "from_uuid", res |-> from_uuid(u)] :
        u \in { Uuid(ScenarioTimestamp \o ScenarioRandom) } }
    \cup { [via |-> "new_random",
            res |-> LET flake ==
                            new_random(Ok(ScenarioTimestamp), ScenarioRandom)
                    IN  IF flake = Panicked THEN Err([kind |-> "Panic"])
                        ELSE Ok(flake)] }

\* the components of the second identifier of a comparison
OtherTs == { << >>, <<123>>, ScenarioTimestamp, Pattern(6, 255, 255, 255) }

OtherRandom == { << >>, ScenarioRandom, Pattern(10, 255, 255, 255) }

----------------------------------------------------------------------------
(* The caller: builds an identifier, then encodes it and decodes the       *)
(* encoding, or compares it with a second identifier, then drops it.       *)

Nothing == [none |-> TRUE]

Init ==
    /\ pc = "idle"
    /\ call = Nothing
    /\ built = Nothing
    /\ out = Nothing
    /\ back = Nothing
    /\ other = Nothing
    /\ order = Nothing

\* a panic leaves no identifier: built records it as a failure
NewRandom ==
    /\ pc = "idle"
    /\ \E t \in ClockInputs, r \in EntropyInputs :
        LET flake == new_random(t, r) IN
        /\ call' = [op |-> "new_random", now |-> t, random_bytes |-> r]
        /\ built' = IF flake = Panicked THEN Err([kind |-> "Panic"])
                     ELSE Ok(flake)
    /\ pc' = "built"
    /\ UNCHANGED <<out, back, other, order>>

FromComponents ==
    /\ pc = "idle"
    /\ \E t \in TsInputs, r \in RandInputs :
        /\ call' = [op |-> "from_components", timestamp |-> t, random |-> r]
        /\ built' = from_components(t, r)
    /\ pc' = "built"
    /\ UNCHANGED <<out, back, other, order>>

FromBytes ==
    /\ pc = "idle"
    /\ \E b \in ByteArrays :
        /\ call' = [op |-> "from_bytes", bytes |-> b]
        /\ built' = from_bytes(b)
    /\ pc' = "built"
    /\ UNCHANGED <<out, back, other, order>>

FromBase62 ==
    /\ pc = "idle"
    /\ \E s \in StrInputs :
        /\ call' = [op |-> "from_base62", s |-> s]
        /\ built' = from_base62(s)
    /\ pc' = "built"
    /\ UNCHANGED <<out, back, other, order>>

FromBigint ==
    /\ pc = "idle"
    /\ \E v \in BigInputs :
        /\ call' = [op |-> "from_bigint", value |-> v]
        /\ built' = from_bigint(v)
    /\ pc' = "built"
    /\ UNCHANGED <<out, back, other, order>>

FromStr ==
    /\ pc = "idle"
    /\ \E s \in StrInputs :
        /\ call' = [op |-> "from_str", s |-> s]
        /\ built' = from_str(s)
    /\ pc' = "built"
    /\ UNCHANGED <<out, back, other, order>>

FromUuid ==
    /\ pc = "idle"
    /\ \E u \in UuidInputs :
        /\ call' = [op |-> "from_uuid", uuid |-> u]
        /\ built' = from_uuid(u)
    /\ pc' = "built"
    /\ UNCHANGED <<out, back, other, order>>

ToBase62 ==
    /\ pc = "built"
    /\ built.ok
    /\ out' = [fmt |-> "base62", val |-> to_base62(built.val)]
    /\ pc' = "encoded"
    /\ UNCHANGED <<call, built, back, other, order>>

ToHex ==
    /\ pc = "built"
    /\ built.ok
    /\ out' = [fmt |-> "hex", val |-> to_hex(built.val)]
    /\ pc' = "encoded"
    /\ UNCHANGED <<call, built, back, other, order>>

ToBytes ==
    /\ pc = "built"
    /\ built.ok
    /\ out' = [fmt |-> "bytes", val |-> to_bytes(built.val)]
    /\ pc' = "encoded"
    /\ UNCHANGED <<call, built, back, other, order>>

ToBigint ==
    /\ pc = "built"
    /\ built.ok
    /\ out' = [fmt |-> "bigint", val |-> to_bigint(built.val)]
    /\ pc' = "encoded"
    /\ UNCHANGED <<call, built, back, other, order>>

ToUuid ==
    /\ pc = "built"
    /\ built.ok
    /\ out' = [fmt |-> "uuid", val |-> to_uuid(built.val)]
    /\ pc' = "encoded"
    /\ UNCHANGED <<call, built, back, other, order>>

DecodeBase62 ==
    /\ pc = "encoded"
    /\ out.fmt = "base62"
    /\ back' = [via |-> "from_base62", res |-> from_base62(out.val)]
    /\ pc' = "decoded"
    /\ UNCHANGED <<call, built, out, other, order>>

DecodeStr ==
    /\ pc = "encoded"
    /\ out.fmt \in {"base62", "hex"}
    /\ back' = [via |-> "from_str", res |-> from_str(out.val)]
    /\ pc' = "decoded"
    /\ UNCHANGED <<call, built, out, other, order>>

DecodeBytes ==
    /\ pc = "encoded"
    /\ out.fmt = "bytes"
    /\ back' = [via |-> "from_bytes", res |-> from_bytes(out.val)]
    /\ pc' = "decoded"
    /\ UNCHANGED <<call, built, out, other, order>>

DecodeBigint ==
    /\ pc = "encoded"
    /\ out.fmt = "bigint"
    /\ back' = [via |-> "from_bigint", res |-> from_bigint(out.val)]
    /\ pc' = "decoded"
    /\ UNCHANGED <<call, built, out, other, order>>

Compare ==
    /\ pc = "built"
    /\ built.ok
    /\ \E t \in OtherTs, r \in OtherRandom :
        LET a == built.val
            made == from_components(t, r)
            b == made.val
        IN  /\ made.ok
            /\ other' = [timestamp |-> t, random |-> r, val |-> b]
            /\ order' = [lt |-> lt(a, b), eq |-> eq(a, b), gt |-> gt(a, b),
                         cmp |-> cmp(a, b), rev |-> cmp(b, a)]
    /\ pc' = "compared"
    /\ UNCHANGED <<call, built, out, back>>

DecodeUuid ==
    /\ pc = "encoded"
    /\ out.fmt = "uuid"
    /\ back' = [via |-> "from_uuid", res |-> from_uuid(out.val)]
    /\ pc' = "decoded"
    /\ UNCHANGED <<call, built, out, other, order>>

\* the identifier and a second one, built by any constructor, are compared
\* and hashed, each by a hasher of its own
HashBoth ==
    /\ pc = "built"
    /\ built.ok
    /\ \E made \in OtherFlakes :
        LET a == built.val
            b == made.res.val
        IN  /\ made.res.ok
            /\ other' = [via |-> made.via, val |-> b]
            /\ order' = [eq |-> eq(a, b),
                         hash_a |-> finish(hash(a, new_hasher)),
                         hash_b |-> finish(hash(b, new_hasher))]
    /\ pc' = "hashed"
    /\ UNCHANGED <<call, built, out, back>>

Drop ==
    /\ pc \in {"built", "encoded", "decoded", "compared", "hashed"}
    /\ pc' = "idle"
    /\ call' = Nothing
    /\ built' = Nothing
    /\ out' = Nothing
    /\ back' = Nothing
    /\ other' = Nothing
    /\ order' = Nothing

Next ==
    \/ NewRandom
    \/ FromComponents
    \/ FromBytes
    \/ FromBase62
    \/ FromBigint
    \/ FromStr
    \/ FromUuid
    \/ ToBase62
    \/ ToHex
    \/ ToBytes
    \/ ToBigint
    \/ ToUuid
    \/ DecodeBase62
    \/ DecodeStr
    \/ DecodeBytes
    \/ DecodeBigint
    \/ DecodeUuid
    \/ Compare
    \/ HashBoth
    \/ Drop

Spec == Init /\ [][Next]_vars

----------------------------------------------------------------------------
(* Properties *)

\* the call that built the identifier at hand
Called(op) == pc # "idle" /\ call.op = op

\* r is the failure of that kind
Fails(r, kind) == ~r.ok /\ r.err.kind = kind

\* n >= 2^bits, for a whole number of bytes: n needs more bytes than that
Exceeds(n, bits) == Len(n) * 8 > bits

\* C1 as stated: from_components fails with InvalidTimestamp iff the
\* timestamp exceeds 2^48 - 1, and with InvalidRandom iff the random part
\* exceeds 2^80 - 1, each whatever the other argument is.
C1_RangeEnforcementAsStated ==
    Called("from_components") =>
        /\ Fails(built, "InvalidTimestamp") <=> Exceeds(call.timestamp, 48)
        /\ Fails(built, "InvalidRandom") <=> Exceeds(call.random, 80)

\* C1 amended: from_components fails with InvalidTimestamp (carrying the
\* timestamp) iff the timestamp exceeds 2^48 - 1, whatever the random part;
\* it fails with InvalidRandom iff the timestamp is in range and the random
\* part exceeds 2^80 - 1; it fails in no other way.
C1_RangeEnforcement ==
    Called("from_components") =>
        /\ Fails(built, "InvalidTimestamp") <=> Exceeds(call.timestamp, 48)
        /\ Fails(built, "InvalidTimestamp") =>
               built.err.timestamp = call.timestamp
        /\ Fails(built, "InvalidRandom") <=>
               (~Exceeds(call.timestamp, 48) /\ Exceeds(call.random, 80))
        /\ built.ok \/ Fails(built, "InvalidTimestamp")
                    \/ Fails(built, "InvalidRandom")

\* both components out of range: the timestamp error is the one reported
C1_Witness ==
    /\ Called("from_components")
    /\ pc = "built"
    /\ call.timestamp = Pattern(7, 1, 0, 0)
    /\ call.random = Pattern(11, 1, 0, 0)
    /\ Fails(built, "InvalidTimestamp")

\* C2: for a timestamp up to 2^48 - 1 and a random part up to 2^80 - 1,
\* from_components succeeds, timestamp() and random() give the components
\* back, and the integer value is the 6 timestamp bytes followed by the 10
\* random bytes, that is (timestamp << 80) | random with no overlap.
C2_PackingCorrectness ==
    ( /\ Called("from_components")
      /\ ~Exceeds(call.timestamp, 48)
      /\ ~Exceeds(call.random, 80) ) =>
        /\ built.ok
        /\ timestamp(built.val) = call.timestamp
        /\ random(built.val) = call.random
        /\ to_bigint(built.val) =
               from_bytes_be(PadLeft(call.timestamp, 6)
                             \o PadLeft(call.random, 10))

\* the largest timestamp packed with the scenario's random part
C2_Witness ==
    /\ Called("from_components")
    /\ pc = "built"
    /\ call.timestamp = Pattern(6, 255, 255, 255)
    /\ call.random = ScenarioRandom
    /\ built.ok
    /\ timestamp(built.val) = call.timestamp
    /\ random(built.val) = ScenarioRandom

\* an encoding was decoded by constructor via
DecodedVia(via) == pc = "decoded" /\ back.via = via

\* the decoding gave the identifier that was encoded
SameAsBuilt ==
    /\ back.res.ok
    /\ eq(back.res.val, built.val)
    /\ back.res.val = built.val

\* C3: decoding the Base62 encoding of an identifier, with from_base62 and
\* with the auto-detecting from_str, gives an identifier equal to it, and so
\* does from_str on its hex encoding.
C3_TextualRoundTrip ==
    (DecodedVia("from_base62") \/ DecodedVia("from_str")) => SameAsBuilt

\* the hex encoding of 2^128 - 1 parsed back by from_str
C3_Witness ==
    /\ DecodedVia("from_str")
    /\ out.fmt = "hex"
    /\ built.val.int_value = Pattern(16, 255, 255, 255)
    /\ SameAsBuilt

\* C4: from_bytes succeeds on every 16-byte array, keeps the array as the
\* identifier's bytes and its big-endian value as the integer value; so
\* from_bytes on the bytes of an identifier gives the identifier.
C4_FromBytesTotalLossless ==
    /\ Called("from_bytes") =>
        /\ built.ok
        /\ to_bytes(built.val) = call.bytes
        /\ to_bigint(built.val) = from_bytes_be(call.bytes)
    /\ DecodedVia("from_bytes") => SameAsBuilt

\* the array of sixteen 0xff bytes, the largest value
C4_Witness ==
    /\ Called("from_bytes")
    /\ pc = "built"
    /\ call.bytes = Pattern(16, 255, 255, 255)
    /\ built.ok
    /\ to_bytes(built.val) = call.bytes

C6_FromBigintInvalidFlake ==
    (Called("from_bigint") /\ Exceeds(call.value, 128)) =>
        Fails(built, "InvalidFlake")

\* C7: from_base62 fails with ParseError on a string with a character
\* outside 0-9A-Za-z, and with InvalidFlake on a string of Base62 characters
\* whose value exceeds 2^128 - 1.
C7_Base62FailuresDistinguished ==
    Called("from_base62") =>
        LET s == call.s
            valid == \A i \in 1..Len(s) : Base62Digit(s[i]) # -1
        IN  /\ ~valid => Fails(built, "ParseError")
            /\ (valid /\ Exceeds(Base62Value(s), 128)) =>
                   Fails(built, "InvalidFlake")

\* C8: the Base62 encoding of an identifier has exactly 22 characters of the
\* Base62 alphabet and, the padding being zeros, the identifier's value; the
\* hex encoding has exactly 32 characters of the lowercase hex alphabet.
C8_FixedWidth ==
    pc \in {"encoded", "decoded"} =>
        /\ out.fmt = "base62" =>
            /\ Len(out.val) = 22
            /\ \A i \in 1..Len(out.val) : IndexOf(BASE62, out.val[i]) # -1
            /\ Base62Value(out.val) = built.val.int_value
        /\ out.fmt = "hex" =>
            /\ Len(out.val) = 32
            /\ \A i \in 1..Len(out.val) : IndexOf(HEX, out.val[i]) # -1

\* the identifier 0 encodes as 22 zeros
C8_Witness ==
    /\ pc = "encoded"
    /\ out.fmt = "base62"
    /\ built.val.int_value = << >>
    /\ out.val = Pattern(22, "0", "0", "0")

\* the name of an ordering -1, 0, 1
OrderingOf(c) ==
    IF c = -1 THEN "Less" ELSE IF c = 0 THEN "Equal" ELSE "Greater"

\* C9: exactly one of a < b, a == b, a > b holds of two identifiers; for
\* two built by from_components the order is that of the timestamps and,
\* the timestamps being equal, that of the random parts.
C9_Ordering ==
    pc = "compared" =>
        /\ \/ order.lt /\ ~order.eq /\ ~order.gt
           \/ ~order.lt /\ order.eq /\ ~order.gt
           \/ ~order.lt /\ ~order.eq /\ order.gt
        /\ Called("from_components") =>
            LET t == Cmp(call.timestamp, other.timestamp)
                r == Cmp(call.random, other.random)
                lex == IF t # 0 THEN t ELSE r
            IN  /\ order.lt <=> lex = -1
                /\ order.eq <=> lex = 0
                /\ order.gt <=> lex = 1
                /\ order.cmp = OrderingOf(lex)
                /\ order.rev = OrderingOf(0 - lex)

\* a smaller timestamp with a larger random part compares less
C9_Witness ==
    /\ pc = "compared"
    /\ Called("from_components")
    /\ call.timestamp = <<123>>
    /\ call.random = Pattern(10, 255, 255, 255)
    /\ other.timestamp = ScenarioTimestamp
    /\ other.random = << >>
    /\ order.lt
    /\ order.cmp = "Less"

\* s is 32 characters of HEX
IsHex32(s) == Len(s) = 32 /\ \A i \in 1..Len(s) : IndexOf(HEX, s[i]) # -1

\* C10: from_str reads every string of 32 characters of HEX (0-9a-f) as
\* hexadecimal: it gives the identifier whose bytes are the string's pairs
\* of hex digits, also when the string is made of Base62 characters only.
C10_FormatDisambiguation ==
    (Called("from_str") /\ IsHex32(call.s)) =>
        /\ built.ok
        /\ to_bytes(built.val) =
               [i \in 1..16 |-> 16 * IndexOf(HEX, call.s[2 * i - 1])
                                + IndexOf(HEX, call.s[2 * i])]

\* 30 zeros then "10": the identifier 16 as hex, where from_base62 on the same
\* string gives 62
C10_Witness ==
    /\ Called("from_str")
    /\ pc = "built"
    /\ call.s = [i \in 1..32 |-> IF i = 31 THEN "1" ELSE "0"]
    /\ built.ok
    /\ built.val.int_value = <<16>>
    /\ from_base62(call.s).ok
    /\ from_base62(call.s).val.int_value = <<62>>

\* C11: from_str of a string that is not 32 characters of HEX gives what
\* from_base62 gives for it when it has at most 22 characters, all of them
\* ASCII letters or digits, and otherwise fails with the ParseError saying
\* that the string is of neither format.
C11_ParseFallback ==
    (Called("from_str") /\ ~IsHex32(call.s)) =>
        IF /\ Len(call.s) <= 22
           /\ \A i \in 1..Len(call.s) : is_ascii_alphanumeric(call.s[i])
        THEN built = from_base62(call.s)
        ELSE /\ Fails(built, "ParseError")
             /\ built.err.input = call.s
             /\ built.err.reason =
                 "String must be either a 32-character hex string or a base62 string"

\* a Base62 numeral shorter than 22 characters, parsed by from_str
C11_Witness ==
    /\ Called("from_str")
    /\ pc = "built"
    /\ Len(call.s) \in 1..21
    /\ built.ok
    /\ built = from_base62(call.s)

\* C12: whenever the clock gives a reading, new_random returns an identifier
\* and does not panic, whatever the 10 bytes; its timestamp() is the reading
\* and its random() is the big-endian value of the bytes, at most MAX_RANDOM.
C12_RandomGenerationTotal ==
    (Called("new_random") /\ call.now.ok) =>
        /\ built.ok
        /\ timestamp(built.val) = call.now.val
        /\ random(built.val) = from_bytes_be(call.random_bytes)
        /\ ~Gt(random(built.val), max_random_biguint)

\* C13: two identifiers, whichever constructors built them, are equal
\* exactly when their 16 bytes are the same, and two equal identifiers have
\* the same hash.
C13_EqHashConsistent ==
    pc = "hashed" =>
        /\ order.eq <=> to_bytes(built.val) = to_bytes(other.val)
        /\ order.eq => order.hash_a = order.hash_b

\* the scenario's identifier parsed from Base62 and built from components
C13_Witness ==
    /\ pc = "hashed"
    /\ Called("from_base62")
    /\ other.via = "from_components"
    /\ to_bytes(built.val) = ScenarioTimestamp \o ScenarioRandom
    /\ order.eq
    /\ order.hash_a = order.hash_b

\* x is as the struct's fields are meant: its bytes are its integer value
\* in 16 big-endian bytes, zeros on the left; the value is at most
\* 2^128 - 1; the timestamp and the random part are in range and pack to it
WellFormed(x) ==
    /\ Len(x.bytes) = 16
    /\ x.bytes = Zeros(16 - Len(x.int_value)) \o x.int_value
    /\ bytes_to_biguint(x.bytes) = x.int_value
    /\ ~Gt(x.int_value, max_timeflake_biguint)
    /\ ~Gt(timestamp(x), MAX_TIMESTAMP)
    /\ ~Gt(random(x), max_random_biguint)
    /\ x.int_value = BitOr(Shl(timestamp(x), 80), random(x))

\* r is an identifier that is as meant, or a failure and no identifier
WellFormedOrFailed(r) ==
    IF r.ok THEN DOMAIN r = {"ok", "val"} /\ WellFormed(r.val)
    ELSE DOMAIN r = {"ok", "err"}

\* C14: every identifier a constructor returns (new_random, from_bytes,
\* from_components, from_base62, from_bigint, from_uuid, from_str) has as
\* bytes the 16-byte, left-padded big-endian form of its integer value, a
\* value of at most 2^128 - 1, a timestamp of at most MAX_TIMESTAMP, a random
\* part of at most MAX_RANDOM, and value = (timestamp << 80) | random; a
\* constructor that fails gives its failure and no identifier, and only
\* new_random fails by a panic.
C14_RepresentationInvariant ==
    /\ pc # "idle" =>
        /\ WellFormedOrFailed(built)
        /\ call.op \in {"new_random", "from_bytes", "from_components",
                        "from_base62", "from_bigint", "from_uuid", "from_str"}
        /\ Fails(built, "Panic") => call.op = "new_random"
    /\ pc = "decoded" => WellFormedOrFailed(back.res)
    /\ pc \in {"compared", "hashed"} => WellFormed(other.val)

\* from_components with a timestamp and a random part that leave the value
\* shorter than 16 bytes: the bytes are padded on the left
C14_Witness ==
    /\ pc = "built"
    /\ Called("from_components")
    /\ call.timestamp = <<123>>
    /\ call.random = <<1, 200>>
    /\ built.ok
    /\ built.val.bytes = Zeros(5) \o <<123>> \o Zeros(8) \o <<1, 200>>
    /\ timestamp(built.val) = <<123>>
    /\ random(built.val) = <<1, 200>>

====
